---- MODULE Spec2Model ----
(***************************************************************************)
(* ubelt.util_cmd: the dual-stream tee of a child process.                 *)
(*                                                                         *)
(* The model has four kinds of process:                                    *)
(*   - the child process, which runs a finite program of writes to its     *)
(*     stdout / stderr pipes (each of bounded capacity), may close a       *)
(*     stream early, and then exits with an exit code;                     *)
(*   - the two worker threads of _proc_async_iter_stream (enqueue_output); *)
(*   - the foreground: cmd -> _tee_output -> _proc_iteroutput_thread or    *)
(*     _proc_iteroutput_select -> back to cmd.                             *)
(*                                                                         *)
(* Text is modelled by tokens.  The k-th operation of the child's program  *)
(* writes token k when the written text ends with a newline, and token -k  *)
(* when it is a fragment without a newline.  A string is a sequence of     *)
(* tokens: '' is << >>, and Python's None is the one-element sequence      *)
(* <<0>>, which no text equals because 0 is not a token.                   *)
(***************************************************************************)
EXTENDS Integers, Sequences, FiniteSets, TLC

\* Longest child program (number of write / close operations before exit).
MaxOps == 3
\* Longest child program of the specifications that vary the forward sinks
\* or state fairness.
MaxSmallOps == 2
\* Capacity of each OS pipe, in tokens; a write to a full pipe blocks.
PipeCap == 1
\* Capacity of each OS pipe where a stream must hold several lines at once.
WidePipeCap == 2
\* _proc_async_iter_stream(proc, stream, buffersize=1)
buffersize == 1

Streams == {"stdout", "stderr"}
Other(s) == IF s = "stdout" THEN "stderr" ELSE "stdout"

None == <<0>>
EmptyStr == << >>
\* Mutant: the tee tests `is not None` instead of truthiness.
TruthyNotNone(line) == line # None

\* Python truthiness of an optional string: `if oline:`
Truthy(line) == line # None /\ line # EmptyStr

Backends == {"auto", "thread", "select", "bogus"}
\* The (backend, POSIX) inputs: POSIX is read in the 'select' branch only.
Configs == {<<b, px>> \in Backends \X BOOLEAN : b \in {"auto", "thread"} => px}
\* The forward sinks supplied: both, stdout only, stderr only, neither.
SinkConfigs == [Streams -> BOOLEAN]
ExitCodes == {0, 7}

(***************************************************************************)
(* The child's program.                                                    *)
(***************************************************************************)
WriteOps == [k : {"write"}, s : Streams, nl : BOOLEAN]
CloseOps == [k : {"close"}, s : Streams, nl : {FALSE}]

\* A child does not write to a stream it has closed, nor close it twice.
WellFormed(p) ==
    \A i \in 1..Len(p) : \A j \in 1..Len(p) :
        (i < j /\ p[i].k = "close") => p[j].s # p[i].s

SeqsUpTo(S, n) == UNION {[1..m -> S] : m \in 0..n}

\* The children that only write, and those that also close a stream early.
Programs == SeqsUpTo(WriteOps, MaxOps)
ClosingPrograms ==
    {p \in SeqsUpTo(WriteOps \cup CloseOps, MaxOps) :
        WellFormed(p) /\ \E i \in 1..Len(p) : p[i].k = "close"}

Token(p, i) == IF p[i].nl THEN i ELSE -i

\* The tokens operations 1..n of program p write to stream s, in order.
RECURSIVE WrittenUpTo(_, _, _)
WrittenUpTo(p, s, n) ==
    IF n = 0 THEN << >>
    ELSE IF p[n].k = "write" /\ p[n].s = s
         THEN Append(WrittenUpTo(p, s, n - 1), Token(p, n))
         ELSE WrittenUpTo(p, s, n - 1)

\* The text of a stream cut into lines: each line ends with its newline,
\* except a last fragment that has none.
RECURSIVE SplitLines(_, _)
SplitLines(toks, cur) ==
    IF toks = << >> THEN (IF cur = << >> THEN << >> ELSE <<cur>>)
    ELSE IF Head(toks) > 0
         THEN <<Append(cur, Head(toks))>> \o SplitLines(Tail(toks), << >>)
         ELSE SplitLines(Tail(toks), Append(cur, Head(toks)))

\* ''.join(lines)
RECURSIVE Join(_)
Join(lines) == IF lines = << >> THEN << >> ELSE Head(lines) \o Join(Tail(lines))

VARIABLES
    backend,    \* the backend argument of _tee_output (rebound by 'auto')
    POSIX,      \* module constant POSIX
    hasSink,    \* hasSink[s]: a forward sink was supplied for side s
    prog,       \* the child's program
    cap,        \* capacity of each OS pipe, in tokens
    cpc,        \* index of the child's next operation
    child,      \* "none" (not spawned), "running", "exited"
    exitcode,   \* the child's exit status once exited
    pipe,       \* pipe[s]: tokens written and not yet read from the OS pipe
    wclosed,    \* wclosed[s]: the write end of the pipe is closed
    ubuf,       \* ubuf[s]: the reader-side buffer of the stream object
    wpc,        \* wpc[s]: position of the worker thread of stream s
    wline,      \* wline[s]: the worker's local `line`
    queue,      \* queue[s]: stream_queue of stream s
    lastPut,    \* lastPut[s]: kind of the last item put on queue[s]
    live,       \* stdout_live / stderr_live
    active,     \* the drain iterators of zip_longest not yet exhausted
    ready,      \* ret[0] of select.select
    pc,         \* position of the foreground
    resume,     \* where the suspended generator continues after a yield
    oline, eline,
    logged,     \* logged_out / logged_err
    sink,       \* what was written to each forward sink
    yielded,    \* the truthy lines each side of the yielded pairs carried
    emptyAtTop, \* the stderr queue was empty when this iteration began
    remaining,  \* remaining[s]: the lines left in stream s when the drain began
    drained,    \* the pairs the drain loop of the select strategy yielded
    made,       \* number of calls of make_proc
    exc,        \* the exception _tee_output raised, or "none"
    joined,     \* out, err: the joined capture buffers
    comm,       \* (out_, err_): what proc.communicate() returned
    ret,        \* ret = proc.wait()
    waited,     \* proc.wait() has returned
    info        \* the result records cmd has built

vars == <<backend, POSIX, hasSink, prog, cap, cpc, child, exitcode, pipe,
          wclosed, ubuf, wpc, wline, queue, lastPut, live, active, ready,
          pc, resume, oline, eline, logged, sink, yielded, emptyAtTop,
          remaining, drained, made, exc, joined, comm, ret, waited, info>>


Both(v) == [s \in Streams |-> v]

\* The state before _tee_output runs, whatever its arguments and the child.
Start ==
    /\ \E c \in Configs : backend = c[1] /\ POSIX = c[2]
    /\ cpc = 1
    /\ child = "none"
    /\ exitcode = -1
    /\ pipe = Both(<< >>)
    /\ wclosed = Both(FALSE)
    /\ ubuf = Both(<< >>)
    /\ wpc = Both("unstarted")
    /\ wline = Both(None)
    /\ queue = Both(<< >>)
    /\ lastPut = Both("nothing")
    /\ live = Both(TRUE)
    /\ active = Both(TRUE)
    /\ ready = {}
    /\ pc = "tee_resolve"
    /\ resume = "none"
    /\ oline = None
    /\ eline = None
    /\ logged = Both(<< >>)
    /\ sink = Both(<< >>)
    /\ yielded = Both(<< >>)
    /\ emptyAtTop = FALSE
    /\ remaining = Both(<< >>)
    /\ drained = << >>
    /\ made = 0
    /\ exc = "none"
    /\ joined = Both(<< >>)
    /\ comm = Both(<< >>)
    /\ ret = -1
    /\ waited = FALSE
    /\ info = << >>

(***************************************************************************)
(* The child process and its two pipes (subprocess.Popen with              *)
(* stdout=PIPE, stderr=PIPE).                                              *)
(***************************************************************************)
\* proc.poll(): None while the child runs, its exit code afterwards.
PollIsNone == child # "exited"

ChildWrite ==
    /\ child = "running"
    /\ cpc <= Len(prog)
    /\ prog[cpc].k = "write"
    /\ Len(pipe[prog[cpc].s]) < cap
    /\ pipe' = [pipe EXCEPT ![prog[cpc].s] = Append(@, Token(prog, cpc))]
    /\ cpc' = cpc + 1
    /\ UNCHANGED <<backend, POSIX, hasSink, prog, cap, child, exitcode,
                   wclosed, ubuf, wpc, wline, queue, lastPut, live, active,
                   ready, pc, resume, oline, eline, logged, sink, yielded,
                   emptyAtTop, remaining, drained, made, exc, joined, comm,
                   ret, waited, info>>

ChildClose ==
    /\ child = "running"
    /\ cpc <= Len(prog)
    /\ prog[cpc].k = "close"
    /\ wclosed' = [wclosed EXCEPT ![prog[cpc].s] = TRUE]
    /\ cpc' = cpc + 1
    /\ UNCHANGED <<backend, POSIX, hasSink, prog, cap, child, exitcode,
                   pipe, ubuf, wpc, wline, queue, lastPut, live, active,
                   ready, pc, resume, oline, eline, logged, sink, yielded,
                   emptyAtTop, remaining, drained, made, exc, joined, comm,
                   ret, waited, info>>

\* The child has run its program: it exits, which closes both write ends.
ChildExit ==
    /\ child = "running"
    /\ cpc = Len(prog) + 1
    /\ \E c \in ExitCodes : exitcode' = c
    /\ child' = "exited"
    /\ wclosed' = Both(TRUE)
    /\ UNCHANGED <<backend, POSIX, hasSink, prog, cap, cpc, pipe, ubuf, wpc,
                   wline, queue, lastPut, live, active, ready, pc, resume,
                   oline, eline, logged, sink, yielded, emptyAtTop,
                   remaining, drained, made, exc, joined, comm, ret, waited,
                   info>>

\* The child is blocked in a write to the full pipe of stream s.
ChildBlockedOn(s) ==
    /\ child = "running"
    /\ cpc <= Len(prog)
    /\ prog[cpc].k = "write"
    /\ prog[cpc].s = s
    /\ Len(pipe[s]) >= cap

(***************************************************************************)
(* stream.readline() on a buffered text stream over a pipe.  The call      *)
(* returns a line already held in the stream's buffer; otherwise it takes  *)
(* what the pipe holds into the buffer and returns once the buffer holds   *)
(* a newline, or once end-of-stream is met (then it returns the rest, ''   *)
(* when there is none).  Otherwise it stays blocked in the read.           *)
(***************************************************************************)
HasLine(buf) == \E i \in 1..Len(buf) : buf[i] > 0
FirstNL(buf) == CHOOSE i \in 1..Len(buf) :
                    buf[i] > 0 /\ \A j \in 1..(i - 1) : buf[j] < 0

\* The buffer after the call has taken the pipe's content when it needed to.
ReadBuf(s) == IF HasLine(ubuf[s]) THEN ubuf[s] ELSE ubuf[s] \o pipe[s]
\* The call can make a step / the call returns with this step.
CanRead(s) == HasLine(ubuf[s]) \/ pipe[s] # << >> \/ wclosed[s]
ReadReturns(s) == HasLine(ReadBuf(s)) \/ wclosed[s]
\* The value the call returns.
ReadResult(s) ==
    IF HasLine(ReadBuf(s)) THEN SubSeq(ReadBuf(s), 1, FirstNL(ReadBuf(s)))
    ELSE ReadBuf(s)
BufAfterRead(s) ==
    IF HasLine(ReadBuf(s))
    THEN SubSeq(ReadBuf(s), FirstNL(ReadBuf(s)) + 1, Len(ReadBuf(s)))
    ELSE IF wclosed[s] THEN << >> ELSE ReadBuf(s)
PipeAfterRead(s) == IF HasLine(ubuf[s]) THEN pipe[s] ELSE << >>

\* One step of stream.readline() on stream s.
Readline(s) ==
    /\ CanRead(s)
    /\ ubuf' = [ubuf EXCEPT ![s] = BufAfterRead(s)]
    /\ pipe' = [pipe EXCEPT ![s] = PipeAfterRead(s)]

(***************************************************************************)
(* enqueue_output: the worker thread of one stream.                        *)
(***************************************************************************)
\* Mutant: the completion sentinel is never queued.
QueueAfterPutNoSentinel(s, item) ==
    IF item = None THEN queue[s] ELSE Append(queue[s], item)

\* Mutant: the queue is unbounded (maxsize=0).
QueueNeverFull(s) == TRUE

\* stream_queue.put(item): blocks while the queue is full.
QueueHasRoom(s) == Len(queue[s]) < buffersize
QueueAfterPut(s, item) == Append(queue[s], item)

\* Mutant: the sentinel is pushed as soon as the exit is seen, undrained.
AfterPollNoDrain(running) == IF running THEN "readline" ELSE "put_none"

\* Where enqueue_output goes from the test of its live loop: into the loop
\* body while the process runs, on to the drain loop once it has exited.
AfterPoll(running) == IF running THEN "readline" ELSE "drain_read"

\* while proc.poll() is None
WorkerPoll(s) ==
    /\ wpc[s] = "poll"
    /\ wpc' = [wpc EXCEPT ![s] = AfterPoll(PollIsNone)]
    /\ UNCHANGED <<backend, POSIX, hasSink, prog, cap, cpc, child, exitcode,
                   pipe, wclosed, ubuf, wline, queue, lastPut, live, active,
                   ready, pc, resume, oline, eline, logged, sink, yielded,
                   emptyAtTop, remaining, drained, made, exc, joined, comm,
                   ret, waited, info>>

\* line = stream.readline()   (live phase)
WorkerReadline(s) ==
    /\ wpc[s] = "readline"
    /\ Readline(s)
    /\ IF ReadReturns(s)
       THEN /\ wline' = [wline EXCEPT ![s] = ReadResult(s)]
            /\ wpc' = [wpc EXCEPT ![s] = "put"]
       ELSE UNCHANGED <<wline, wpc>>
    /\ UNCHANGED <<backend, POSIX, hasSink, prog, cap, cpc, child, exitcode,
                   wclosed, queue, lastPut, live, active, ready, pc, resume,
                   oline, eline, logged, sink, yielded, emptyAtTop,
                   remaining, drained, made, exc, joined, comm, ret, waited,
                   info>>

\* stream_queue.put(line)   (live phase)
WorkerPut(s) ==
    /\ wpc[s] = "put"
    /\ QueueHasRoom(s)
    /\ queue' = [queue EXCEPT ![s] = QueueAfterPut(s, wline[s])]
    /\ lastPut' = [lastPut EXCEPT ![s] = "line"]
    /\ wpc' = [wpc EXCEPT ![s] = "poll"]
    /\ UNCHANGED <<backend, POSIX, hasSink, prog, cap, cpc, child, exitcode,
                   pipe, wclosed, ubuf, wline, live, active, ready, pc,
                   resume, oline, eline, logged, sink, yielded, emptyAtTop,
                   remaining, drained, made, exc, joined, comm, ret, waited,
                   info>>

\* Mutant: the worker does not drain the stream after the process exit.
IterlinesEndsAtOnce(line) == TRUE
\* Mutant: a line without a trailing newline is taken for the end.
IterlinesEndsOnFragment(line) ==
    line = EmptyStr \/ line[Len(line)] < 0

\* _textio_iterlines(stream): the generator ends at the first '' it reads.
IterlinesEnds(line) == line = EmptyStr

\* for line in _textio_iterlines(stream)   (drain phase)
WorkerDrainRead(s) ==
    /\ wpc[s] = "drain_read"
    /\ Readline(s)
    /\ IF ReadReturns(s)
       THEN /\ wline' = [wline EXCEPT ![s] = ReadResult(s)]
            /\ wpc' = [wpc EXCEPT ![s] =
                          IF IterlinesEnds(ReadResult(s)) THEN "put_none"
                          ELSE "drain_put"]
       ELSE UNCHANGED <<wline, wpc>>
    /\ UNCHANGED <<backend, POSIX, hasSink, prog, cap, cpc, child, exitcode,
                   wclosed, queue, lastPut, live, active, ready, pc, resume,
                   oline, eline, logged, sink, yielded, emptyAtTop,
                   remaining, drained, made, exc, joined, comm, ret, waited,
                   info>>

\* stream_queue.put(line)   (drain phase)
WorkerDrainPut(s) ==
    /\ wpc[s] = "drain_put"
    /\ QueueHasRoom(s)
    /\ queue' = [queue EXCEPT ![s] = QueueAfterPut(s, wline[s])]
    /\ lastPut' = [lastPut EXCEPT ![s] = "line"]
    /\ wpc' = [wpc EXCEPT ![s] = "drain_read"]
    /\ UNCHANGED <<backend, POSIX, hasSink, prog, cap, cpc, child, exitcode,
                   pipe, wclosed, ubuf, wline, live, active, ready, pc,
                   resume, oline, eline, logged, sink, yielded, emptyAtTop,
                   remaining, drained, made, exc, joined, comm, ret, waited,
                   info>>

\* stream_queue.put(None)
WorkerPutNone(s) ==
    /\ wpc[s] = "put_none"
    /\ QueueHasRoom(s)
    /\ queue' = [queue EXCEPT ![s] = QueueAfterPut(s, None)]
    /\ lastPut' = [lastPut EXCEPT ![s] = "sentinel"]
    /\ wpc' = [wpc EXCEPT ![s] = "done"]
    /\ UNCHANGED <<backend, POSIX, hasSink, prog, cap, cpc, child, exitcode,
                   pipe, wclosed, ubuf, wline, live, active, ready, pc,
                   resume, oline, eline, logged, sink, yielded, emptyAtTop,
                   remaining, drained, made, exc, joined, comm, ret, waited,
                   info>>

Worker(s) ==
    \/ WorkerPoll(s)
    \/ WorkerReadline(s)
    \/ WorkerPut(s)
    \/ WorkerDrainRead(s)
    \/ WorkerDrainPut(s)
    \/ WorkerPutNone(s)

(***************************************************************************)
(* _tee_output: validation, process creation, the tee loop.                *)
(***************************************************************************)
\* backend = 'thread' when backend == 'auto'
ResolveAuto(b) == IF b = "auto" THEN "thread" ELSE b

\* Mutant: the platform is not checked for the select backend.
ValidateNoPlatform(b, posix) ==
    IF b \in {"select", "thread"} THEN "ok" ELSE "ValueError"

\* The outcome of the backend checks for the resolved name b.
Validate(b, posix) ==
    IF b = "select"
    THEN (IF ~posix THEN "NotImplementedError" ELSE "ok")
    ELSE IF b = "thread" THEN "ok"
    ELSE "ValueError"

TeeResolve ==
    /\ pc = "tee_resolve"
    /\ backend' = ResolveAuto(backend)
    /\ IF Validate(backend', POSIX) = "ok"
       THEN /\ pc' = "make_proc"
            /\ UNCHANGED exc
       ELSE /\ pc' = "raised"
            /\ exc' = Validate(backend', POSIX)
    /\ UNCHANGED <<POSIX, hasSink, prog, cap, cpc, child, exitcode, pipe,
                   wclosed, ubuf, wpc, wline, queue, lastPut, live, active,
                   ready, resume, oline, eline, logged, sink, yielded,
                   emptyAtTop, remaining, drained, made, joined, comm, ret,
                   waited, info>>

\* proc = make_proc(); then the generator of the chosen backend starts.
MakeProc ==
    /\ pc = "make_proc"
    /\ made' = made + 1
    /\ child' = "running"
    /\ pc' = IF backend = "select" THEN "s_poll" ELSE "t_start_out"
    /\ UNCHANGED <<backend, POSIX, hasSink, prog, cap, cpc, exitcode, pipe,
                   wclosed, ubuf, wpc, wline, queue, lastPut, live, active,
                   ready, resume, oline, eline, logged, sink, yielded,
                   emptyAtTop, remaining, drained, exc, joined, comm, ret,
                   waited, info>>

CurLine(s) == IF s = "stdout" THEN oline ELSE eline
TeeWritePc(s) == IF s = "stdout" THEN "tee_out" ELSE "tee_err"
TeeAppendPc(s) == IF s = "stdout" THEN "tee_out_append" ELSE "tee_err_append"

\* Where the loop body goes for the pair (o, e) it receives: `if oline:` and
\* `if eline:` are evaluated on the way, so the body stops at the first side
\* it processes, or passes with nothing to do when neither line is truthy.
BodyEntry(o, e) ==
    IF Truthy(o) THEN "tee_out" ELSE IF Truthy(e) THEN "tee_err" ELSE "tee_skip"
\* The program points inside the body of the tee loop.
BodyPcs == {"tee_out", "tee_out_append", "tee_err", "tee_err_append", "tee_skip"}
AfterSide(s) ==
    IF s = "stdout" /\ Truthy(eline) THEN "tee_err" ELSE resume

\* Mutant: the stderr line is written to whichever sink is served.
SinkAfterWriteEline(s, line) == Append(sink[s], eline)

\* stdout.write(oline); stdout.flush()
SinkAfterWrite(s, line) == Append(sink[s], line)
\* Mutant: the append sits inside the `if stdout:` block.
LoggedAfterAppendIfSink(s, line) ==
    IF hasSink[s] THEN Append(logged[s], line) ELSE logged[s]

\* logged_out.append(oline)
LoggedAfterAppend(s, line) == Append(logged[s], line)

\* if stdout: stdout.write(oline); stdout.flush()
TeeWrite(s) ==
    /\ pc = TeeWritePc(s)
    /\ sink' = IF hasSink[s]
               THEN [sink EXCEPT ![s] = SinkAfterWrite(s, CurLine(s))]
               ELSE sink
    /\ pc' = TeeAppendPc(s)
    /\ UNCHANGED <<backend, POSIX, hasSink, prog, cap, cpc, child, exitcode,
                   pipe, wclosed, ubuf, wpc, wline, queue, lastPut, live,
                   active, ready, resume, oline, eline, logged, yielded,
                   emptyAtTop, remaining, drained, made, exc, joined, comm,
                   ret, waited, info>>

\* logged_out.append(oline)
TeeAppend(s) ==
    /\ pc = TeeAppendPc(s)
    /\ logged' = [logged EXCEPT ![s] = LoggedAfterAppend(s, CurLine(s))]
    /\ pc' = AfterSide(s)
    /\ UNCHANGED <<backend, POSIX, hasSink, prog, cap, cpc, child, exitcode,
                   pipe, wclosed, ubuf, wpc, wline, queue, lastPut, live,
                   active, ready, resume, oline, eline, sink, yielded,
                   emptyAtTop, remaining, drained, made, exc, joined, comm,
                   ret, waited, info>>

\* Neither `if oline:` nor `if eline:` holds: the next pair is asked for.
TeeSkip ==
    /\ pc = "tee_skip"
    /\ pc' = resume
    /\ UNCHANGED <<backend, POSIX, hasSink, prog, cap, cpc, child, exitcode,
                   pipe, wclosed, ubuf, wpc, wline, queue, lastPut, live,
                   active, ready, resume, oline, eline, logged, sink,
                   yielded, emptyAtTop, remaining, drained, made, exc,
                   joined, comm, ret, waited, info>>

\* return proc, logged_out, logged_err
TeeReturn ==
    /\ pc = "tee_return"
    /\ pc' = "cmd_join"
    /\ UNCHANGED <<backend, POSIX, hasSink, prog, cap, cpc, child, exitcode,
                   pipe, wclosed, ubuf, wpc, wline, queue, lastPut, live,
                   active, ready, resume, oline, eline, logged, sink,
                   yielded, emptyAtTop, remaining, drained, made, exc,
                   joined, comm, ret, waited, info>>

\* The truthy lines the pair (o, e) adds to the record of yielded lines.
YieldedAfter(o, e) ==
    [s \in Streams |->
        IF s = "stdout"
        THEN (IF Truthy(o) THEN Append(yielded[s], o) ELSE yielded[s])
        ELSE (IF Truthy(e) THEN Append(yielded[s], e) ELSE yielded[s])]

(***************************************************************************)
(* _proc_iteroutput_thread                                                 *)
(***************************************************************************)
StartPc(s) == IF s = "stdout" THEN "t_start_out" ELSE "t_start_err"

\* stdout_queue = _proc_async_iter_stream(proc, proc.stdout)
StartWorker(s) ==
    /\ pc = StartPc(s)
    /\ wpc' = [wpc EXCEPT ![s] = "poll"]
    /\ pc' = IF s = "stdout" THEN "t_start_err" ELSE "t_pop_out"
    /\ UNCHANGED <<backend, POSIX, hasSink, prog, cap, cpc, child, exitcode,
                   pipe, wclosed, ubuf, wline, queue, lastPut, live, active,
                   ready, resume, oline, eline, logged, sink, yielded,
                   emptyAtTop, remaining, drained, made, exc, joined, comm,
                   ret, waited, info>>

\* Mutant: on queue.Empty the variable keeps the line of the last pop.
GetNowaitKeepsLine(s) == IF queue[s] # << >> THEN Head(queue[s]) ELSE CurLine(s)

\* stream_queue.get_nowait(), with queue.Empty turned into None
GetNowait(s) == IF queue[s] # << >> THEN Head(queue[s]) ELSE None
QueueAfterGet(s) == IF queue[s] # << >> THEN Tail(queue[s]) ELSE queue[s]
\* Mutant: queue.Empty also clears the live flag.
LiveAfterGetEmptyEnds(s) == queue[s] # << >> /\ Head(queue[s]) # None

\* stdout_live = oline is not None   (kept on queue.Empty)
LiveAfterGet(s) == IF queue[s] # << >> THEN Head(queue[s]) # None ELSE live[s]

\* Mutant: the merge loop ends as soon as one stream is complete.
LoopContinuesWhileBoth(lo, le) == lo /\ le

\* while stdout_live or stderr_live
LoopContinues(lo, le) == lo \/ le

\* Mutant: a pair is yielded on every iteration.
ShouldYieldAlways(o, e) == TRUE

\* Mutant: a pair is yielded only when both queues had an item.
ShouldYieldBoth(o, e) == o # None /\ e # None

\* if oline is not None or eline is not None
ShouldYield(o, e) == o # None \/ e # None

\* while stdout_live or stderr_live: if stdout_live: ...
ThreadPopOut ==
    /\ pc = "t_pop_out"
    /\ IF ~LoopContinues(live["stdout"], live["stderr"])
       THEN /\ pc' = "tee_return"
            /\ UNCHANGED <<oline, queue, live, emptyAtTop>>
       ELSE /\ pc' = "t_pop_err"
            /\ emptyAtTop' = (queue["stderr"] = << >>)
            /\ IF live["stdout"]
               THEN /\ oline' = GetNowait("stdout")
                    /\ queue' = [queue EXCEPT !["stdout"] = QueueAfterGet("stdout")]
                    /\ live' = [live EXCEPT !["stdout"] = LiveAfterGet("stdout")]
               ELSE UNCHANGED <<oline, queue, live>>
    /\ UNCHANGED <<backend, POSIX, hasSink, prog, cap, cpc, child, exitcode,
                   pipe, wclosed, ubuf, wpc, wline, lastPut, active, ready,
                   resume, eline, logged, sink, yielded, remaining, drained,
                   made, exc, joined, comm, ret, waited, info>>

\* if stderr_live: ...; if oline is not None or eline is not None: yield
ThreadPopErr ==
    /\ pc = "t_pop_err"
    /\ IF live["stderr"]
       THEN /\ eline' = GetNowait("stderr")
            /\ queue' = [queue EXCEPT !["stderr"] = QueueAfterGet("stderr")]
            /\ live' = [live EXCEPT !["stderr"] = LiveAfterGet("stderr")]
       ELSE UNCHANGED <<eline, queue, live>>
    /\ IF ShouldYield(oline, eline')
       THEN /\ pc' = BodyEntry(oline, eline')
            /\ resume' = "t_pop_out"
            /\ yielded' = YieldedAfter(oline, eline')
       ELSE /\ pc' = "t_pop_out"
            /\ UNCHANGED <<resume, yielded>>
    /\ emptyAtTop' = FALSE
    /\ UNCHANGED <<backend, POSIX, hasSink, prog, cap, cpc, child, exitcode,
                   pipe, wclosed, ubuf, wpc, wline, lastPut, active, ready,
                   oline, logged, sink, remaining, drained, made, exc,
                   joined, comm, ret, waited, info>>

(***************************************************************************)
(* _proc_iteroutput_select                                                 *)
(***************************************************************************)
\* A descriptor is ready to read when its pipe holds data or is at EOF.
FdReady(s) == pipe[s] # << >> \/ wclosed[s]
ReadySet == {s \in Streams : FdReady(s)}

\* while proc.poll() is None
SelectPoll ==
    /\ pc = "s_poll"
    /\ IF PollIsNone
       THEN /\ pc' = "s_select"
            /\ UNCHANGED remaining
       ELSE /\ pc' = "d_read_out"
            /\ remaining' = [s \in Streams |->
                                SplitLines(ubuf[s] \o pipe[s], << >>)]
    /\ UNCHANGED <<backend, POSIX, hasSink, prog, cap, cpc, child, exitcode,
                   pipe, wclosed, ubuf, wpc, wline, queue, lastPut, live,
                   active, ready, resume, oline, eline, logged, sink,
                   yielded, emptyAtTop, drained, made, exc, joined, comm,
                   ret, waited, info>>

\* ret = select.select(reads, [], []); oline = eline = None
SelectWait ==
    /\ pc = "s_select"
    /\ ReadySet # {}
    /\ ready' = ReadySet
    /\ oline' = None
    /\ eline' = None
    /\ pc' = "s_read_out"
    /\ UNCHANGED <<backend, POSIX, hasSink, prog, cap, cpc, child, exitcode,
                   pipe, wclosed, ubuf, wpc, wline, queue, lastPut, live,
                   active, resume, logged, sink, yielded, emptyAtTop,
                   remaining, drained, made, exc, joined, comm, ret, waited,
                   info>>

\* if fd == proc.stdout.fileno(): oline = proc.stdout.readline()
SelectReadOut ==
    /\ pc = "s_read_out"
    /\ IF "stdout" \in ready
       THEN /\ Readline("stdout")
            /\ IF ReadReturns("stdout")
               THEN /\ oline' = ReadResult("stdout")
                    /\ pc' = "s_read_err"
               ELSE UNCHANGED <<oline, pc>>
       ELSE /\ pc' = "s_read_err"
            /\ UNCHANGED <<oline, pipe, ubuf>>
    /\ UNCHANGED <<backend, POSIX, hasSink, prog, cap, cpc, child, exitcode,
                   wclosed, wpc, wline, queue, lastPut, live, active, ready,
                   resume, eline, logged, sink, yielded, emptyAtTop,
                   remaining, drained, made, exc, joined, comm, ret, waited,
                   info>>

\* if fd == proc.stderr.fileno(): eline = proc.stderr.readline(); then yield
SelectReadErr ==
    /\ pc = "s_read_err"
    /\ IF "stderr" \in ready
       THEN /\ Readline("stderr")
            /\ IF ReadReturns("stderr")
               THEN /\ eline' = ReadResult("stderr")
                    /\ pc' = BodyEntry(oline, eline')
                    /\ resume' = "s_poll"
                    /\ yielded' = YieldedAfter(oline, eline')
               ELSE UNCHANGED <<eline, pc, resume, yielded>>
       ELSE /\ pc' = BodyEntry(oline, eline)
            /\ resume' = "s_poll"
            /\ yielded' = YieldedAfter(oline, eline)
            /\ UNCHANGED <<eline, pipe, ubuf>>
    /\ UNCHANGED <<backend, POSIX, hasSink, prog, cap, cpc, child, exitcode,
                   wclosed, wpc, wline, queue, lastPut, live, active, ready,
                   oline, logged, sink, emptyAtTop, remaining, drained,
                   made, exc, joined, comm, ret, waited, info>>

\* Mutant: zip instead of zip_longest, ending with the shorter stream.
ZipEnds(otherActive) == TRUE

\* zip_longest ends when an iterator is exhausted and no other is active.
ZipLongestEnds(otherActive) == ~otherActive

\* Mutant: zip_longest(..., fillvalue='').
FillValueEmptyStr == EmptyStr

\* zip_longest fills the side of an exhausted iterator with None.
FillValue == None

\* zip_longest(oline_iter, eline_iter): next(oline_iter)
DrainReadOut ==
    /\ pc = "d_read_out"
    /\ IF active["stdout"]
       THEN /\ Readline("stdout")
            /\ IF ~ReadReturns("stdout")
               THEN UNCHANGED <<oline, active, pc>>
               ELSE IF IterlinesEnds(ReadResult("stdout"))
               THEN /\ oline' = FillValue
                    /\ active' = [active EXCEPT !["stdout"] = FALSE]
                    /\ pc' = IF ZipLongestEnds(active["stderr"])
                             THEN "tee_return" ELSE "d_read_err"
               ELSE /\ oline' = ReadResult("stdout")
                    /\ pc' = "d_read_err"
                    /\ UNCHANGED active
       ELSE /\ oline' = FillValue
            /\ pc' = "d_read_err"
            /\ UNCHANGED <<active, pipe, ubuf>>
    /\ UNCHANGED <<backend, POSIX, hasSink, prog, cap, cpc, child, exitcode,
                   wclosed, wpc, wline, queue, lastPut, live, ready, resume,
                   eline, logged, sink, yielded, emptyAtTop, remaining,
                   drained, made, exc, joined, comm, ret, waited, info>>

\* zip_longest(oline_iter, eline_iter): next(eline_iter); then yield
DrainReadErr ==
    /\ pc = "d_read_err"
    /\ IF active["stderr"]
       THEN /\ Readline("stderr")
            /\ IF ~ReadReturns("stderr")
               THEN UNCHANGED <<eline, active, pc, resume, yielded, drained>>
               ELSE IF IterlinesEnds(ReadResult("stderr"))
               THEN /\ eline' = FillValue
                    /\ active' = [active EXCEPT !["stderr"] = FALSE]
                    /\ IF ZipLongestEnds(active["stdout"])
                       THEN /\ pc' = "tee_return"
                            /\ UNCHANGED <<resume, yielded, drained>>
                       ELSE /\ pc' = BodyEntry(oline, eline')
                            /\ resume' = "d_read_out"
                            /\ yielded' = YieldedAfter(oline, eline')
                            /\ drained' = Append(drained, <<oline, eline'>>)
               ELSE /\ eline' = ReadResult("stderr")
                    /\ pc' = BodyEntry(oline, eline')
                    /\ resume' = "d_read_out"
                    /\ yielded' = YieldedAfter(oline, eline')
                    /\ drained' = Append(drained, <<oline, eline'>>)
                    /\ UNCHANGED active
       ELSE /\ eline' = FillValue
            /\ pc' = BodyEntry(oline, eline')
            /\ resume' = "d_read_out"
            /\ yielded' = YieldedAfter(oline, eline')
            /\ drained' = Append(drained, <<oline, eline'>>)
            /\ UNCHANGED <<active, pipe, ubuf>>
    /\ UNCHANGED <<backend, POSIX, hasSink, prog, cap, cpc, child, exitcode,
                   wclosed, wpc, wline, queue, lastPut, live, ready, oline,
                   logged, sink, emptyAtTop, remaining, made, exc, joined,
                   comm, ret, waited, info>>

(***************************************************************************)
(* cmd, after _tee_output has returned (detach=False, tee enabled).        *)
(***************************************************************************)
\* out = ''.join(logged_out); err = ''.join(logged_err)
CmdJoin ==
    /\ pc = "cmd_join"
    /\ joined' = [s \in Streams |-> Join(logged[s])]
    /\ pc' = "cmd_communicate"
    /\ UNCHANGED <<backend, POSIX, hasSink, prog, cap, cpc, child, exitcode,
                   pipe, wclosed, ubuf, wpc, wline, queue, lastPut, live,
                   active, ready, resume, oline, eline, logged, sink,
                   yielded, emptyAtTop, remaining, drained, made, exc, comm,
                   ret, waited, info>>

\* (out_, err_) = proc.communicate(): reads both streams to EOF, then waits.
CmdCommunicate ==
    /\ pc = "cmd_communicate"
    /\ child = "exited"
    /\ comm' = [s \in Streams |-> ubuf[s] \o pipe[s]]
    /\ ubuf' = Both(<< >>)
    /\ pipe' = Both(<< >>)
    /\ pc' = "cmd_wait"
    /\ UNCHANGED <<backend, POSIX, hasSink, prog, cap, cpc, child, exitcode,
                   wclosed, wpc, wline, queue, lastPut, live, active, ready,
                   resume, oline, eline, logged, sink, yielded, emptyAtTop,
                   remaining, drained, made, exc, joined, ret, waited, info>>

\* Mutant: the value of the wait is not taken, ret keeps what it held.
WaitResultNotTaken == ret

\* The value proc.wait() returns.
WaitResult == exitcode

\* ret = proc.wait()
CmdWait ==
    /\ pc = "cmd_wait"
    /\ child = "exited"
    /\ ret' = WaitResult
    /\ waited' = TRUE
    /\ pc' = "cmd_info"
    /\ UNCHANGED <<backend, POSIX, hasSink, prog, cap, cpc, child, exitcode,
                   pipe, wclosed, ubuf, wpc, wline, queue, lastPut, live,
                   active, ready, resume, oline, eline, logged, sink,
                   yielded, emptyAtTop, remaining, drained, made, exc,
                   joined, comm, info>>

\* info = {'out': out, 'err': err, 'ret': ret, ...}
CmdInfo ==
    /\ pc = "cmd_info"
    /\ info' = Append(info, [out |-> joined["stdout"],
                             err |-> joined["stderr"],
                             ret |-> ret])
    /\ pc' = "done"
    /\ UNCHANGED <<backend, POSIX, hasSink, prog, cap, cpc, child, exitcode,
                   pipe, wclosed, ubuf, wpc, wline, queue, lastPut, live,
                   active, ready, resume, oline, eline, logged, sink,
                   yielded, emptyAtTop, remaining, drained, made, exc,
                   joined, comm, ret, waited>>

Child == ChildWrite \/ ChildExit
Tee == TeeResolve \/ MakeProc \/ TeeSkip \/ TeeReturn
          \/ (\E s \in Streams : TeeWrite(s) \/ TeeAppend(s))
ThreadIter == ThreadPopOut \/ ThreadPopErr \/ (\E s \in Streams : StartWorker(s))
SelectIter == SelectPoll \/ SelectWait \/ SelectReadOut \/ SelectReadErr
                \/ DrainReadOut \/ DrainReadErr
Cmd == CmdJoin \/ CmdCommunicate \/ CmdWait \/ CmdInfo
Workers == \E s \in Streams : Worker(s)

Next == Child \/ Workers \/ Tee \/ ThreadIter \/ SelectIter \/ Cmd

\* cmd(..., tee=True): both sinks are supplied (sys.stdout, sys.stderr).
Init ==
    /\ Start
    /\ hasSink = Both(TRUE)
    /\ prog \in Programs
    /\ cap = PipeCap

Spec == Init /\ [][Next]_vars

\* _tee_output called with any choice of forward sinks.
TeeInit ==
    /\ Start
    /\ hasSink \in SinkConfigs
    /\ prog \in SeqsUpTo(WriteOps, MaxSmallOps)
    /\ cap = PipeCap

TeeSpec == TeeInit /\ [][Next]_vars

\* The thread strategy alone, under the scheduler's fairness: the child, each
\* worker thread and the foreground keep running while they can.
FairInit ==
    /\ Start
    /\ backend \in {"auto", "thread"}
    /\ hasSink = Both(TRUE)
    /\ prog \in SeqsUpTo(WriteOps, MaxSmallOps)
    /\ cap = PipeCap

Foreground == Tee \/ ThreadIter \/ Cmd
FairNext == Child \/ Workers \/ Foreground

FairThreadSpec ==
    /\ FairInit
    /\ [][FairNext]_vars
    /\ WF_vars(Child)
    /\ \A s \in Streams : WF_vars(Worker(s))
    /\ WF_vars(Foreground)

\* The select strategy alone, on pipes that hold more than one line.
SelectInit ==
    /\ Start
    /\ backend = "select"
    /\ POSIX
    /\ hasSink = Both(TRUE)
    /\ prog \in Programs
    /\ cap = WidePipeCap

SelectNext == Child \/ Tee \/ SelectIter \/ Cmd

SelectSpec == SelectInit /\ [][SelectNext]_vars

\* A child that closes a stream while it is still running.
CloseInit ==
    /\ Start
    /\ hasSink = Both(TRUE)
    /\ prog \in ClosingPrograms
    /\ cap = PipeCap

CloseSpec == CloseInit /\ [][Next \/ ChildClose]_vars

(***************************************************************************)
(* Properties.                                                             *)
(***************************************************************************)
\* _tee_output has returned to cmd.
TeeReturned == pc \in {"cmd_join", "cmd_communicate", "cmd_wait", "cmd_info", "done"}

\* The lines the child writes to stream s over its whole run.
Written(s) == WrittenUpTo(prog, s, Len(prog))
ChildLines(s) == SplitLines(Written(s), << >>)

\* C1: under the thread strategy, when _tee_output returns, logged_out is
\* exactly the sequence of lines the child wrote to stdout and logged_err
\* the sequence it wrote to stderr: same lines, same order, none dropped or
\* duplicated (so a child silent on stderr leaves logged_err empty).
ThreadCaptureExact ==
    (backend = "thread" /\ TeeReturned) =>
        /\ logged["stdout"] = ChildLines("stdout")
        /\ logged["stderr"] = ChildLines("stderr")

ThreadCaptureExactWitness ==
    /\ backend = "thread"
    /\ TeeReturned
    /\ Len(logged["stdout"]) = 2
    /\ Len(logged["stderr"]) = 1

\* C2: what _tee_output captures per stream is the same under the thread
\* and the select strategy: under either it is the value CaptureOf, which
\* depends on the child alone and not on the strategy.
CaptureOf(p, s) == SplitLines(WrittenUpTo(p, s, Len(p)), << >>)
StrategyInvariance ==
    \A b \in {"thread", "select"} :
        (backend = b /\ TeeReturned) =>
            \A s \in Streams : logged[s] = CaptureOf(prog, s)

StrategyInvarianceWitness ==
    /\ backend = "select"
    /\ TeeReturned
    /\ Len(logged["stdout"]) = 1
    /\ Len(logged["stderr"]) = 2

\* C3: with a forward sink supplied for a side, what was written to the sink
\* is always the side's capture buffer, or the buffer followed by the line
\* being processed (written and flushed but not yet appended), and it is
\* the capture buffer exactly when _tee_output returns.
ForwardingParity ==
    \A s \in Streams :
        hasSink[s] =>
            /\ \/ sink[s] = logged[s]
               \/ /\ pc = TeeAppendPc(s)
                  /\ sink[s] = Append(logged[s], CurLine(s))
            /\ (TeeReturned \/ pc = "tee_return") => sink[s] = logged[s]

ForwardingParityWitness ==
    /\ hasSink["stderr"]
    /\ pc = "tee_err_append"
    /\ logged["stderr"] # << >>
    /\ sink["stderr"] = Append(logged["stderr"], eline)
    /\ sink["stdout"] # << >>

\* C4: a configuration error (an unknown backend name, or 'select' off POSIX)
\* ends _tee_output before make_proc was called, so no child exists;
\* make_proc is called at most once, only with a valid configuration, and
\* it has been called once whenever the tee loop runs.
BadConfig(b, px) ==
    \/ b \notin {"auto", "thread", "select"}
    \/ (b = "select" /\ ~px)
FailBeforeSpawning ==
    /\ made <= 1
    /\ (pc = "raised") = (exc # "none")
    /\ pc = "raised" => (made = 0 /\ child = "none")
    /\ BadConfig(backend, POSIX) => (made = 0 /\ child = "none")
    /\ (BadConfig(backend, POSIX) /\ pc # "tee_resolve") => pc = "raised"
    /\ pc \notin {"tee_resolve", "make_proc", "raised"} => made = 1

FailBeforeSpawningWitness ==
    /\ pc = "raised"
    /\ exc = "NotImplementedError"
    /\ backend = "select"
    /\ made = 0

\* C5: cmd waits on the process only after _tee_output has returned, builds
\* the result record once and only after the wait, and the record's ret is
\* the exit code of the exited child; a child without output gives out = ''
\* and err = ''.
ExitCodeOrdering ==
    /\ waited => (TeeReturned /\ child = "exited" /\ ret = exitcode)
    /\ Len(info) <= 1
    /\ (pc = "done") = (Len(info) = 1)
    /\ info # << >> =>
          /\ waited
          /\ info[1].ret = exitcode
          /\ info[1].ret \in ExitCodes
          /\ (prog = << >>) =>
                (info[1].out = EmptyStr /\ info[1].err = EmptyStr)

ExitCodeOrderingWitness ==
    /\ pc = "done"
    /\ prog = << >>
    /\ info[1].ret = 7
    /\ info[1].out = EmptyStr

\* C6: when the child's last write to a stream is a fragment without a
\* newline, then under either strategy the captured lines of that stream
\* end with the line that ends with this fragment, and the fragment is in
\* no other captured line.
EndsWithFragment(s) == Written(s) # << >> /\ Written(s)[Len(Written(s))] < 0
FinalFragment(s) == Written(s)[Len(Written(s))]
Holds(line, tok) == \E i \in 1..Len(line) : line[i] = tok
FinalFragmentOnce ==
    TeeReturned =>
        \A s \in Streams :
            EndsWithFragment(s) =>
                /\ logged[s] # << >>
                /\ LET last == logged[s][Len(logged[s])]
                   IN  /\ last[Len(last)] = FinalFragment(s)
                       /\ Cardinality({j \in 1..Len(last) :
                                          last[j] = FinalFragment(s)}) = 1
                /\ \A i \in 1..(Len(logged[s]) - 1) :
                       ~Holds(logged[s][i], FinalFragment(s))

FinalFragmentOnceWitness ==
    /\ TeeReturned
    /\ backend = "select"
    /\ EndsWithFragment("stdout")
    /\ Len(logged["stdout"]) = 2
    /\ EndsWithFragment("stderr")

\* C7: under the thread strategy and fair scheduling, for every child that
\* writes finitely much to its bounded pipes and exits, both workers push
\* their sentinel and end, the merge loop ends and _tee_output returns (and
\* cmd completes); until then some process can always take a step.
ThreadDone ==
    /\ TeeReturned
    /\ \A s \in Streams : wpc[s] = "done" /\ lastPut[s] = "sentinel"
ThreadTerminates ==
    /\ <>(ThreadDone /\ pc = "done")
    /\ [](pc # "done" => ENABLED FairNext)
    /\ [](TeeReturned => ThreadDone)

ThreadTerminatesWitness ==
    /\ ThreadDone
    /\ pc = "done"
    /\ Len(prog) = MaxSmallOps
    /\ \A i \in 1..Len(prog) : prog[i].s = "stderr"

\* C8: in the select strategy the foreground is never blocked in a line read
\* on one stream, with no whole line and no end-of-stream to complete it,
\* while the child is blocked writing to the full pipe of the other stream.
SelectReadBlockedOn(s) ==
    /\ pc = (IF s = "stdout" THEN "s_read_out" ELSE "s_read_err")
    /\ s \in ready
    /\ ~CanRead(s)
SelectNeverStuck ==
    \A s \in Streams : ~(SelectReadBlockedOn(s) /\ ChildBlockedOn(Other(s)))

\* C9: the capture does not depend on the forward sinks: whichever sinks are
\* supplied, the capture buffers returned are the truthy lines the
\* multiplexer yielded, side by side and in order, and a side without a
\* sink only misses the writes to the sink.
CaptureIgnoresSinks ==
    /\ \A s \in Streams : ~hasSink[s] => sink[s] = << >>
    /\ (TeeReturned \/ pc = "tee_return") =>
           \A s \in Streams : logged[s] = yielded[s]

CaptureIgnoresSinksWitness ==
    /\ TeeReturned
    /\ ~hasSink["stdout"]
    /\ hasSink["stderr"]
    /\ Len(logged["stdout"]) = 1
    /\ Len(logged["stderr"]) = 1
    /\ sink["stderr"] = logged["stderr"]

\* C10: each worker pushes the sentinel None at most once, only after it saw
\* the process exited and then read its stream to the end, and pushes
\* nothing afterwards: a queue holds the sentinel only as its last item, and
\* both sentinels have been pushed when the thread-based tee returns.
StreamAtEnd(s) == wclosed[s] /\ pipe[s] = << >> /\ ubuf[s] = << >>
SentinelIsLast(s) ==
    \A i \in 1..Len(queue[s]) : queue[s][i] = None => i = Len(queue[s])
SentinelState ==
    \A s \in Streams :
        /\ SentinelIsLast(s)
        /\ (lastPut[s] = "sentinel") = (wpc[s] = "done")
        /\ lastPut[s] # "sentinel" => \A i \in 1..Len(queue[s]) : queue[s][i] # None
        /\ lastPut[s] = "sentinel" => (child = "exited" /\ StreamAtEnd(s))
        /\ (backend = "thread" /\ TeeReturned) => lastPut[s] = "sentinel"
SentinelStep ==
    \A s \in Streams :
        lastPut[s] = "sentinel" =>
            /\ lastPut'[s] = "sentinel"
            /\ \/ queue'[s] = queue[s]
               \/ queue[s] # << >> /\ queue'[s] = Tail(queue[s])
            /\ wpc'[s] = "done"
SentinelProducer == []SentinelState /\ [][SentinelStep]_vars

SentinelProducerWitness ==
    /\ \A s \in Streams : lastPut[s] = "sentinel" /\ logged[s] # << >>
    /\ queue["stderr"] = <<None>>
    /\ queue["stdout"] = << >>

\* C11: in the thread-based merge loop a live flag turns false only in the
\* step that pops the sentinel from that stream's queue (never on an empty
\* queue), a flag that is false stays false, and the queue of a completed
\* stream is not popped (nor changed) again.
PopPc(s) == IF s = "stdout" THEN "t_pop_out" ELSE "t_pop_err"
LiveFlagStep ==
    \A s \in Streams :
        /\ (live[s] /\ ~live'[s]) =>
              /\ pc = PopPc(s)
              /\ queue[s] # << >>
              /\ Head(queue[s]) = None
              /\ queue'[s] = Tail(queue[s])
        /\ ~live[s] => (~live'[s] /\ queue'[s] = queue[s])
SentinelConsumer == [][LiveFlagStep]_vars

SentinelConsumerWitness ==
    /\ pc = "t_pop_err"
    /\ ~live["stdout"]
    /\ live["stderr"]
    /\ queue["stderr"] # << >>
    /\ logged["stdout"] # << >>

\* C13: each stream has a single reader.  Under the thread strategy a worker
\* is the only reader of its stream while the tee runs, every worker has
\* made its last read before _tee_output returns, so proc.communicate()
\* never reads next to a worker; under the select strategy no worker exists
\* and the foreground makes every read.
WorkerMayRead(s) ==
    wpc[s] \in {"poll", "readline", "put", "drain_read", "drain_put"}
ForegroundReads ==
    pc \in {"s_read_out", "s_read_err", "d_read_out", "d_read_err",
            "cmd_communicate"}
SelectPcs ==
    {"s_poll", "s_select", "s_read_out", "s_read_err", "d_read_out", "d_read_err"}
SingleReader ==
    /\ \A s \in Streams :
          /\ WorkerMayRead(s) => (backend = "thread" /\ ~TeeReturned)
          /\ wpc[s] # "unstarted" => backend = "thread"
    /\ ForegroundReads => \A s \in Streams : ~WorkerMayRead(s)
    /\ pc \in SelectPcs => backend = "select"
SingleReaderStep ==
    \A s \in Streams :
        (pipe'[s] # pipe[s] \/ ubuf'[s] # ubuf[s]) =>
            \/ (Len(pipe'[s]) > Len(pipe[s]) /\ ubuf'[s] = ubuf[s])
            \/ (backend = "thread" /\ wpc[s] \in {"readline", "drain_read"}
                  /\ ~ForegroundReads)
            \/ (backend = "select" /\ ForegroundReads)
SingleReaderPerStream == []SingleReader /\ [][SingleReaderStep]_vars

SingleReaderPerStreamWitness ==
    /\ pc = "cmd_communicate"
    /\ backend = "thread"
    /\ \A s \in Streams : wpc[s] = "done" /\ logged[s] # << >>

\* C14: each stream queue holds at most buffersize = 1 item; a worker that
\* has an item to push while its queue is full stays in its push and reads
\* nothing from its stream until the foreground has popped the queue.
WorkerPushing(s) == wpc[s] \in {"put", "drain_put", "put_none"}
QueueBounded == \A s \in Streams : Len(queue[s]) <= buffersize
BlockedPushStep ==
    \A s \in Streams :
        (WorkerPushing(s) /\ Len(queue[s]) >= buffersize) =>
            /\ wpc'[s] = wpc[s]
            /\ wline'[s] = wline[s]
            /\ ubuf'[s] = ubuf[s]
            /\ Len(pipe'[s]) >= Len(pipe[s])
            /\ Len(queue'[s]) <= Len(queue[s])
BoundedQueue == []QueueBounded /\ [][BlockedPushStep]_vars

BoundedQueueWitness ==
    /\ wpc["stdout"] = "put"
    /\ Truthy(wline["stdout"])
    /\ Len(queue["stdout"]) = buffersize
    /\ pipe["stdout"] # << >>

\* C17: every line a worker pushes is yielded in exactly one merge record,
\* on the side of its own stream: each step of the thread-based merge loop
\* that yields a line on a side yields the first line of that stream not
\* yielded before (never an earlier one again, never a line of the other
\* stream), and when the tee returns every line of each stream has been
\* yielded on its side, once.
YieldedOnceStep ==
    backend = "thread" =>
        \A s \in Streams :
            yielded'[s] # yielded[s] =>
                /\ Len(yielded[s]) < Len(ChildLines(s))
                /\ yielded'[s] =
                      Append(yielded[s], ChildLines(s)[Len(yielded[s]) + 1])
YieldedAll ==
    (backend = "thread" /\ (TeeReturned \/ pc = "tee_return")) =>
        \A s \in Streams :
            /\ yielded[s] = ChildLines(s)
            /\ \A i \in 1..Len(yielded[s]) : \A j \in 1..Len(yielded[s]) :
                   yielded[s][i] = yielded[s][j] => i = j
YieldedExactlyOnce == []YieldedAll /\ [][YieldedOnceStep]_vars

YieldedExactlyOnceWitness ==
    /\ backend = "thread"
    /\ pc = "t_pop_err"
    /\ ~live["stdout"]
    /\ Len(yielded["stdout"]) = 2
    /\ Len(yielded["stderr"]) = 0
    /\ ChildLines("stderr") # << >>

\* C18: when _tee_output returns, under either strategy, the process has
\* exited, both streams are read to their end, under the thread strategy
\* both queues are empty and both workers are done; so what cmd's
\* proc.communicate() returns afterwards is empty.
StateAtReturn ==
    /\ (TeeReturned \/ pc = "tee_return") =>
          /\ child = "exited"
          /\ \A s \in Streams : StreamAtEnd(s)
          /\ backend = "thread" =>
                \A s \in Streams : queue[s] = << >> /\ wpc[s] = "done"
          /\ \A s \in Streams : logged[s] = ChildLines(s)
    /\ comm = Both(EmptyStr)

StateAtReturnWitness ==
    /\ pc = "cmd_wait"
    /\ backend = "select"
    /\ comm = Both(EmptyStr)
    /\ Len(logged["stdout"]) = 2

\* C19: when the child closes a stream while it is still running, the
\* empty strings its live-phase reads return are never appended to a
\* capture buffer nor written to a sink, and never mark the stream complete:
\* a live flag turns false only by popping the None sentinel, which is
\* pushed after the process has exited; the capture of both streams is
\* complete when the tee returns.
NoEmptyLine(lines) == \A i \in 1..Len(lines) : lines[i] # EmptyStr
CompleteBySentinelOnly ==
    \A s \in Streams :
        /\ NoEmptyLine(logged[s])
        /\ NoEmptyLine(sink[s])
        /\ ~live[s] => (child = "exited" /\ lastPut[s] = "sentinel")
        /\ (TeeReturned \/ pc = "tee_return") => logged[s] = ChildLines(s)
CompleteBySentinelStep ==
    \A s \in Streams :
        (live[s] /\ ~live'[s]) =>
            /\ child = "exited"
            /\ queue[s] # << >>
            /\ Head(queue[s]) = None
EarlyClose == []CompleteBySentinelOnly /\ [][CompleteBySentinelStep]_vars

EarlyCloseWitness ==
    /\ backend = "thread"
    /\ child = "running"
    /\ wclosed["stdout"]
    /\ oline = EmptyStr
    /\ live["stdout"]
    /\ pc = "tee_err_append"
    /\ Written("stdout") # << >>

\* C12: every pair a multiplexer yields (thread loop, select live loop,
\* select drain loop) has at least one side that is not None, and no pair
\* is yielded once both streams have signalled completion (both sentinels
\* popped under the thread strategy, both line iterators exhausted under
\* the select strategy): so it is for the pair the body of the tee loop
\* holds, whenever it holds one.
Complete(s) == IF backend = "thread" THEN ~live[s] ELSE ~active[s]
MergeRecordShape ==
    pc \in BodyPcs =>
        /\ oline # None \/ eline # None
        /\ ~(Complete("stdout") /\ Complete("stderr"))

MergeRecordShapeWitness ==
    /\ pc = "tee_err"
    /\ backend = "thread"
    /\ ~live["stdout"]
    /\ oline = None
    /\ Truthy(eline)
    /\ logged["stdout"] # << >>

\* C15 (as stated): the pops of the merge loop never block, and when at the
\* start of an iteration one live queue holds a line while the other live
\* queue is empty, the iteration yields that line and the queue that was
\* empty contributes None.
AtPopErr == pc = "t_pop_err" /\ pc' # "t_pop_err"
PopsEnabled ==
    /\ pc = "t_pop_out" => ENABLED ThreadPopOut
    /\ pc = "t_pop_err" => ENABLED ThreadPopErr
OutLineErrEmptyAtTop ==
    /\ live["stdout"] /\ Truthy(oline)
    /\ live["stderr"] /\ emptyAtTop
ErrLineOutEmptyAtTop ==
    /\ live["stdout"] /\ oline = None
    /\ live["stderr"] /\ ~emptyAtTop /\ Truthy(Head(queue["stderr"]))
EmptyQueueGivesNoneStep ==
    AtPopErr =>
        /\ OutLineErrEmptyAtTop => (pc' = "tee_out" /\ eline' = None)
        /\ ErrLineOutEmptyAtTop =>
              (pc' = "tee_err" /\ eline' = Head(queue["stderr"]))
NeverStallsAsStated == []PopsEnabled /\ [][EmptyQueueGivesNoneStep]_vars

\* C15 (amended): the pops of the merge loop never block; a line that a
\* live queue holds at the start of an iteration is popped and yielded in
\* that iteration; the other live queue, empty at that start, contributes
\* None if it is still empty when it is popped, and otherwise the item its
\* worker has pushed in the meantime.
AvailableLineYieldedStep ==
    AtPopErr =>
        /\ OutLineErrEmptyAtTop =>
              /\ pc' = "tee_out"
              /\ queue["stderr"] = << >> => eline' = None
              /\ queue["stderr"] # << >> => eline' = Head(queue["stderr"])
        /\ ErrLineOutEmptyAtTop =>
              (pc' = "tee_err" /\ eline' = Head(queue["stderr"]))
NeverStalls == []PopsEnabled /\ [][AvailableLineYieldedStep]_vars

NeverStallsWitness ==
    /\ pc = "tee_out"
    /\ backend = "thread"
    /\ live["stdout"] /\ live["stderr"]
    /\ Truthy(oline)
    /\ eline = None
    /\ queue["stderr"] = << >>

\* C16: the drain loop of the select strategy pairs the lines that remain
\* in stdout and in stderr when the exit is observed by position: the k-th
\* pair carries the k-th remaining line of each stream, None on the side of
\* a stream that has fewer, and max(m, n) pairs are yielded in all.
Max(a, b) == IF a >= b THEN a ELSE b
Kth(lines, k) == IF k <= Len(lines) THEN lines[k] ELSE None
DrainCount == Max(Len(remaining["stdout"]), Len(remaining["stderr"]))
SelectDrain ==
    /\ Len(drained) <= DrainCount
    /\ \A k \in 1..Len(drained) :
          drained[k] = <<Kth(remaining["stdout"], k), Kth(remaining["stderr"], k)>>
    /\ (backend = "select" /\ (TeeReturned \/ pc = "tee_return")) =>
          Len(drained) = DrainCount

SelectDrainWitness ==
    /\ backend = "select"
    /\ pc = "tee_return"
    /\ Len(remaining["stdout"]) = 2
    /\ Len(remaining["stderr"]) = 1
    /\ Len(drained) = 2

====
